---------------------------- MODULE Spec2Model ----------------------------
(***************************************************************************)
(* A model of sphinxcontrib-soliditydomain (sphinxcontrib/soliditydomain/  *)
(* domain.py): the type normalizer, the signature parsers, the scope path  *)
(* kept in env.ref_context["sol:obj_path"], and the object registry        *)
(* env.domaindata["sol"]["objects"] with its clear / merge / resolve       *)
(* operations.                                                             *)
(*                                                                         *)
(* Python strings are sequences of one-character strings, so that the      *)
(* regular expressions of the source are modelled on characters.  An       *)
(* optional value is a sequence of length at most one: None is << >> and   *)
(* a present value x is << x >>.                                           *)
(***************************************************************************)
EXTENDS Integers, Sequences, FiniteSets, TLC

VARIABLES
    type_str,       \* normalizer: the raw type string handed to normalize_type
    normalized,     \* normalizer: Some(normalize_type(type_str)) once applied
    renormalized,   \* normalizer: Some(normalize_type(normalized)) once applied
    p_objtype,      \* parser: the directive's object type (self.objtype)
    p_sig,          \* parser: the signature text
    p_obj_path,     \* parser: env.ref_context["sol:obj_path"] at the call
    p_result,       \* parser: Some(what handle_signature did) once applied
    objects,        \* env.domaindata["sol"]["objects"]: the items of the dict,
                    \* in insertion order
    hist,           \* registry: the last registry operation, its arguments,
                    \* what it reported and the registry before it
    obj_path,       \* document: env.ref_context["sol:obj_path"]
    open,           \* document: the directives whose content is being processed,
                    \* outermost first, each with the obj_path before it began
    last,           \* document: the last directive step and what it did
    aborted,        \* document: an exception has left a directive
    ndecl           \* document: the number of directives begun

normVars == <<type_str, normalized, renormalized>>
parseVars == <<p_objtype, p_sig, p_obj_path, p_result>>
regVars == <<objects, hist>>
docVars == <<obj_path, open, last, aborted, ndecl>>
vars == <<normVars, parseVars, regVars, docVars>>

---------------------------------------------------------------------------
\* Optional values (Python None / a value).
None == << >>
Some(x) == <<x>>
IsSome(o) == o # << >>
TheVal(o) == o[1]

\* A local assignment `v = <expression>` followed by the code F that reads v.
Bind(v, F(_)) == F(v)

---------------------------------------------------------------------------
\* Characters and the character classes of Python's re module.

Lower == {"a", "b", "c", "d", "e", "f", "g", "h", "i", "j", "k", "l", "m",
          "n", "o", "p", "q", "r", "s", "t", "u", "v", "w", "x", "y", "z"}
Upper == {"A", "B", "C", "D", "E", "F", "G", "H", "I", "J", "K", "L", "M",
          "N", "O", "P", "Q", "R", "S", "T", "U", "V", "W", "X", "Y", "Z"}
Digits == {"0", "1", "2", "3", "4", "5", "6", "7", "8", "9"}

\* \w
IsWord(c) == c \in Lower \cup Upper \cup Digits \cup {"_"}
\* \s
IsSpace(c) == c \in {" ", "\t"}
\* [\w\s\[\]\(\)=>\.]  (the type class of param_var_re)
IsTypeChar(c) == IsWord(c) \/ IsSpace(c) \/ c \in {"[", "]", "(", ")", "=", ">", "."}

Drop(s, k) == SubSeq(s, k + 1, Len(s))
Take(s, k) == SubSeq(s, 1, k)

\* The length of the longest prefix of s made of whitespace (a greedy \s*).
SpaceRun(s) ==
    IF \A i \in 1..Len(s) : IsSpace(s[i]) THEN Len(s)
    ELSE CHOOSE k \in 0..(Len(s) - 1) :
            /\ ~IsSpace(s[k + 1])
            /\ \A i \in 1..k : IsSpace(s[i])

\* The length of the longest prefix of s made of word characters (a greedy \w*).
WordRun(s) ==
    IF \A i \in 1..Len(s) : IsWord(s[i]) THEN Len(s)
    ELSE CHOOSE k \in 0..(Len(s) - 1) :
            /\ ~IsWord(s[k + 1])
            /\ \A i \in 1..k : IsWord(s[i])

IsPrefix(p, s) == Len(p) <= Len(s) /\ Take(s, Len(p)) = p

\* str.strip() leaves nothing: the string is empty or whitespace only.
IsBlank(s) == \A i \in 1..Len(s) : IsSpace(s[i])

---------------------------------------------------------------------------
\* normalize_type (domain.py 130-136)

\* re.sub(r"\s*(\W)", r"\1", s): leftmost non-overlapping matches.  \W also
\* matches whitespace, so a whitespace run followed by a word character (or
\* by the end) is matched by backtracking \s* one step and is replaced by
\* its last whitespace character.
RECURSIVE SubSpaceBeforeNonWord(_)
SubSpaceBeforeNonWord(s) ==
    IF s = << >> THEN << >>
    ELSE LET k == SpaceRun(s) IN
         IF k < Len(s) /\ ~IsWord(s[k + 1])
         THEN <<s[k + 1]>> \o SubSpaceBeforeNonWord(Drop(s, k + 1))
         ELSE IF k >= 1
         THEN <<s[k]>> \o SubSpaceBeforeNonWord(Drop(s, k))
         ELSE <<s[1]>> \o SubSpaceBeforeNonWord(Drop(s, 1))

\* re.sub(r"(\W)\s*", r"\1", s)
RECURSIVE SubSpaceAfterNonWord(_)
SubSpaceAfterNonWord(s) ==
    IF s = << >> THEN << >>
    ELSE IF ~IsWord(s[1])
         THEN <<s[1]>> \o SubSpaceAfterNonWord(Drop(s, 1 + SpaceRun(Tail(s))))
         ELSE <<s[1]>> \o SubSpaceAfterNonWord(Tail(s))

\* re.sub(r"(\w)\s+(\w)", r"\1 \2", s)
RECURSIVE SubSpaceBetweenWords(_)
SubSpaceBetweenWords(s) ==
    IF s = << >> THEN << >>
    ELSE LET k == SpaceRun(Tail(s)) IN
         IF IsWord(s[1]) /\ k >= 1 /\ k + 2 <= Len(s) /\ IsWord(s[k + 2])
         THEN <<s[1], " ", s[k + 2]>> \o SubSpaceBetweenWords(Drop(s, k + 2))
         ELSE <<s[1]>> \o SubSpaceBetweenWords(Tail(s))

\* str.replace(old, new), old non-empty
RECURSIVE Replace(_, _, _)
Replace(s, old, new) ==
    IF s = << >> THEN << >>
    ELSE IF IsPrefix(old, s)
         THEN new \o Replace(Drop(s, Len(old)), old, new)
         ELSE <<s[1]>> \o Replace(Tail(s), old, new)

MappingParen == <<"m", "a", "p", "p", "i", "n", "g", "(">>
MappingSpaceParen == <<"m", "a", "p", "p", "i", "n", "g", " ", "(">>
Arrow == <<"=", ">">>
SpacedArrow == <<" ", "=", ">", " ">>

\* C8 mutant: the second substitution (whitespace after a non-word
\* character) is left out.
normalize_type_keep_space_after(s) ==
    Replace(Replace(SubSpaceBetweenWords(SubSpaceBeforeNonWord(s)),
                    MappingParen, MappingSpaceParen),
            Arrow, SpacedArrow)

\* C9 mutant: the two spacing rules run before the whitespace is stripped
\* and the stripping is applied around non-word characters only once.
normalize_type_arrow_first(s) ==
    SubSpaceBetweenWords(SubSpaceBeforeNonWord(
        Replace(Replace(s, MappingParen, MappingSpaceParen), Arrow, SpacedArrow)))

normalize_type(s) ==
    Replace(Replace(SubSpaceBetweenWords(SubSpaceAfterNonWord(SubSpaceBeforeNonWord(s))),
                    MappingParen, MappingSpaceParen),
            Arrow, SpacedArrow)

---------------------------------------------------------------------------
\* SolObjFullName and its renderings (domain.py 16-28)

\* SolObjFullName = namedtuple("SolObjFullName", ("name", "obj_path", "param_types"))
SolObjFullName(name, path, param_types) ==
    [name |-> name, obj_path |-> path, param_types |-> param_types]

\* sep.join(parts)
RECURSIVE Join(_, _)
Join(parts, sep) ==
    IF parts = << >> THEN << >>
    ELSE IF Len(parts) = 1 THEN parts[1]
    ELSE parts[1] \o sep \o Join(Tail(parts), sep)

fullname2namepath(fullname) ==
    Join(Append(fullname.obj_path, fullname.name), <<".">>)

fullname2id(fullname) ==
    fullname2namepath(fullname)
        \o (IF fullname.param_types = None THEN << >>
            ELSE <<"(">> \o Join(TheVal(fullname.param_types), <<",">>) \o <<")">>)

---------------------------------------------------------------------------
\* The regular expressions of the signature parsers.

\* \b at offset k of s: between s[k] and s[k+1]
WordBoundary(s, k) ==
    (k >= 1 /\ IsWord(s[k])) # (k < Len(s) /\ IsWord(s[k + 1]))

\* The offset of the first occurrence of character c in s, 0 if none.
IndexOf(s, c) ==
    IF \E i \in 1..Len(s) : s[i] = c
    THEN CHOOSE i \in 1..Len(s) : s[i] = c /\ \A j \in 1..(i - 1) : s[j] # c
    ELSE 0

\* str.split(sep) for a one-character separator
RECURSIVE Split(_, _)
Split(s, c) ==
    LET i == IndexOf(s, c) IN
    IF i = 0 THEN <<s>> ELSE <<Take(s, i - 1)>> \o Split(Drop(s, i), c)

kw_public == <<"p", "u", "b", "l", "i", "c">>
kw_private == <<"p", "r", "i", "v", "a", "t", "e">>
kw_internal == <<"i", "n", "t", "e", "r", "n", "a", "l">>
kw_external == <<"e", "x", "t", "e", "r", "n", "a", "l">>
kw_storage == <<"s", "t", "o", "r", "a", "g", "e">>
kw_memory == <<"m", "e", "m", "o", "r", "y">>
kw_calldata == <<"c", "a", "l", "l", "d", "a", "t", "a">>
kw_indexed == <<"i", "n", "d", "e", "x", "e", "d">>
kw_pure == <<"p", "u", "r", "e">>
kw_view == <<"v", "i", "e", "w">>
kw_payable == <<"p", "a", "y", "a", "b", "l", "e">>
kw_anonymous == <<"a", "n", "o", "n", "y", "m", "o", "u", "s">>
kw_returns == <<"r", "e", "t", "u", "r", "n", "s">>
kw_is == <<"i", "s">>

\* the modifier alternation of param_var_re (domain.py 120-122)
ParamKeywords ==
    {kw_public, kw_private, kw_internal, kw_storage, kw_memory, kw_calldata,
     kw_indexed}

\* param_var_re from offset p on, after the modifier group:
\*     \s*(\b\w+)?\s*   up to the end of s.
\* None when it cannot match; otherwise Some(the name group).
ParamNameTail(s, p) ==
    Bind(p + SpaceRun(Drop(s, p)), LAMBDA r :
    Bind(WordRun(Drop(s, r)), LAMBDA w :
        IF w >= 1 /\ WordBoundary(s, r) /\ r + w + SpaceRun(Drop(s, r + w)) = Len(s)
        THEN Some(Some(SubSeq(s, r + 1, r + w)))
        ELSE IF r = Len(s) THEN Some(None) ELSE None))

\* param_var_re with its leading \s* ending at offset p0 and its lazy type
\* group ending at offset p1: the modifier group is tried present first
\* (greedy "?"), then absent.
ParamMatchAt(s, p0, p1) ==
    Bind(SubSeq(s, p0 + 1, p1), LAMBDA type :
    Bind(p1 + SpaceRun(Drop(s, p1)), LAMBDA q :
    Bind({kw \in ParamKeywords : IsPrefix(kw, Drop(s, q))}, LAMBDA kws :
    Bind(IF WordBoundary(s, q) /\ kws # {}
         THEN Bind(CHOOSE k \in kws : TRUE, LAMBDA kw :
              Bind(ParamNameTail(s, q + Len(kw)), LAMBDA t :
                  IF IsSome(t)
                  THEN Some([type |-> type, memloc |-> Some(kw), name |-> TheVal(t)])
                  ELSE None))
         ELSE None, LAMBDA withMod :
        IF IsSome(withMod) THEN withMod
        ELSE Bind(ParamNameTail(s, p1), LAMBDA t :
                 IF IsSome(t)
                 THEN Some([type |-> type, memloc |-> None, name |-> TheVal(t)])
                 ELSE None)))))

\* param_var_re.fullmatch(s) (domain.py 117-127): None, or Some of the groups
\* (type, modifier, name).  The backtracking order is: the leading \s* as
\* long as possible, then the lazy type group as short as possible.
param_var_re_fullmatch(s) ==
    Bind({ c \in (0..SpaceRun(s)) \X (1..Len(s)) :
            /\ c[2] > c[1]
            /\ \A i \in (c[1] + 1)..c[2] : IsTypeChar(s[i])
            /\ IsSome(ParamMatchAt(s, c[1], c[2])) }, LAMBDA cands :
        IF cands = {} THEN None
        ELSE Bind(CHOOSE c \in cands :
                     \A d \in cands :
                         \/ c[1] > d[1]
                         \/ (c[1] = d[1] /\ c[2] <= d[2]), LAMBDA best :
                 ParamMatchAt(s, best[1], best[2])))

\* (?:\w+ \s* (?:\([^)]*\))? \s*)* up to the end of s (the modifiers group
\* of function_re)
RECURSIVE ModifiersMatch(_)
ModifiersMatch(s) ==
    IF s = << >> THEN TRUE
    ELSE Bind(WordRun(s), LAMBDA w :
         Bind(Drop(s, w + SpaceRun(Drop(s, w))), LAMBDA r :
             /\ w >= 1
             /\ IF r # << >> /\ r[1] = "("
                THEN Bind(IndexOf(r, ")"), LAMBDA close :
                         /\ close # 0
                         /\ ModifiersMatch(
                                Drop(r, close + SpaceRun(Drop(r, close)))))
                ELSE ModifiersMatch(r)))

\* function_re.fullmatch(sig) (domain.py 170-176): None, or Some of the
\* groups (name, paramlist, modifiers).
function_re_fullmatch(sig) ==
    Bind(SpaceRun(sig), LAMBDA a :
    Bind(WordRun(Drop(sig, a)), LAMBDA w :
    Bind(a + w + SpaceRun(Drop(sig, a + w)), LAMBDA c :
    Bind(Drop(sig, c + 1), LAMBDA afterOpen :
    Bind(IndexOf(afterOpen, ")"), LAMBDA close :
    Bind(Drop(afterOpen, close), LAMBDA afterClose :
    Bind(Drop(afterClose, SpaceRun(afterClose)), LAMBDA modifiers :
        IF /\ c < Len(sig)
           /\ sig[c + 1] = "("
           /\ close # 0
           /\ ModifiersMatch(modifiers)
        THEN Some([name |-> IF w >= 1 THEN Some(SubSeq(sig, a + 1, a + w)) ELSE None,
                   paramlist |-> Take(afterOpen, close - 1),
                   modifiers |-> modifiers])
        ELSE None)))))))

\* modifier_re.finditer(s) (domain.py 207): the (modname, modparams) groups
\* of the successive matches of (\w+)(?:\s*\(([^)]*)\))?
RECURSIVE modifier_re_finditer(_)
modifier_re_finditer(s) ==
    IF s = << >> THEN << >>
    ELSE IF ~IsWord(s[1]) THEN modifier_re_finditer(Tail(s))
    ELSE Bind(WordRun(s), LAMBDA w :
         Bind(Drop(s, w + SpaceRun(Drop(s, w))), LAMBDA r :
         Bind(IndexOf(r, ")"), LAMBDA close :
             IF r # << >> /\ r[1] = "(" /\ close # 0
             THEN <<[modname |-> Take(s, w),
                     modparams |-> Some(SubSeq(r, 2, close - 1))]>>
                  \o modifier_re_finditer(Drop(r, close))
             ELSE <<[modname |-> Take(s, w), modparams |-> None]>>
                  \o modifier_re_finditer(Drop(s, w)))))

\* (\w+ (?:\s*,\s* (?:\w+))*) then \s* up to the end of s (the parents group
\* of contract_re and what follows it)
RECURSIVE ParentsMatch(_)
ParentsMatch(s) ==
    Bind(WordRun(s), LAMBDA w :
    Bind(Drop(s, w + SpaceRun(Drop(s, w))), LAMBDA r :
        /\ w >= 1
        /\ \/ IsBlank(Drop(s, w))
           \/ /\ r # << >>
              /\ r[1] = ","
              /\ ParentsMatch(Drop(r, 1 + SpaceRun(Tail(r))))))

\* contract_re.fullmatch(sig) (domain.py 83-89): None, or Some of the name
\* group.
contract_re_fullmatch(sig) ==
    Bind(SpaceRun(sig), LAMBDA a :
    Bind(WordRun(Drop(sig, a)), LAMBDA w :
    Bind(Drop(sig, a + w), LAMBDA rest :
    Bind(SpaceRun(rest), LAMBDA k :
    Bind(Drop(rest, k + Len(kw_is)), LAMBDA afterIs :
    Bind(SpaceRun(afterIs), LAMBDA k2 :
        IF /\ w >= 1
           /\ \/ /\ k >= 1
                 /\ IsPrefix(kw_is, Drop(rest, k))
                 /\ k2 >= 1
                 /\ ParentsMatch(Drop(afterIs, k2))
              \/ IsBlank(rest)
        THEN Some(SubSeq(sig, a + 1, a + w))
        ELSE None))))))

---------------------------------------------------------------------------
\* _parse_params (domain.py 179-204)

\* " ".join(filter(lambda x: x, (atype, memloc, name)))
ParamText(atype, memloc, name) ==
    Join(SelectSeq(<<atype>> \o memloc \o name, LAMBDA x : x # << >>), <<" ">>)

\* atype + ("" if memloc != "storage" else " storage")
AbiType(atype, memloc) ==
    atype \o (IF memloc # Some(kw_storage) THEN << >> ELSE <<" ">> \o kw_storage)

\* None when a segment does not match (the function returns a bare None);
\* otherwise Some of the pair (params, abi_types).
_parse_params(paramlist_str) ==
    IF IsBlank(paramlist_str)
    THEN Some([params |-> << >>, abi_types |-> << >>])
    ELSE Bind(Split(paramlist_str, ","), LAMBDA segments :
         Bind([i \in 1..Len(segments) |-> param_var_re_fullmatch(segments[i])],
              LAMBDA parammatches :
             IF \E i \in 1..Len(segments) : parammatches[i] = None
             THEN None
             ELSE Bind([i \in 1..Len(segments) |->
                           normalize_type(TheVal(parammatches[i]).type)],
                       LAMBDA atype :
                  Bind([i \in 1..Len(segments) |-> TheVal(parammatches[i]).memloc],
                       LAMBDA memloc :
                      Some([params |->
                              [i \in 1..Len(segments) |->
                                  ParamText(atype[i], memloc[i],
                                            TheVal(parammatches[i]).name)],
                            abi_types |->
                              [i \in 1..Len(segments) |->
                                  AbiType(atype[i], memloc[i])]])))))

---------------------------------------------------------------------------
\* The handle_signature methods.  A result is
\*   [tag |-> "fullname", fullname |-> Some(f), ...]  the method returns f,
\*   [tag |-> "none", ...]    the method logs `warning` and returns None,
\*   [tag |-> "raise", ...]   the method raises (`warning` names the exception);
\* `lines` holds the modifier names appended to signode, in order.

ReturnFullName(fullname, lines) ==
    [tag |-> "fullname", fullname |-> Some(fullname), warning |-> "", lines |-> lines]
ReturnNone(warning, lines) ==
    [tag |-> "none", fullname |-> None, warning |-> warning, lines |-> lines]
Raise(exception, lines) ==
    [tag |-> "raise", fullname |-> None, warning |-> exception, lines |-> lines]

TypeLikeKinds == {"contract", "library", "interface", "struct", "enum"}
FunctionLikeKinds == {"constructor", "function", "modifier", "event"}
ObjTypes == TypeLikeKinds \cup FunctionLikeKinds \cup {"statevar"}

\* SolidityTypeLike.handle_signature (domain.py 93-114)
SolidityTypeLike_handle_signature(objtype, sig, path) ==
    Bind(contract_re_fullmatch(sig), LAMBDA match :
        IF match = None THEN ReturnNone("could not parse", << >>)
        ELSE ReturnFullName(SolObjFullName(TheVal(match), path, None), << >>))

\* SolidityStateVariable.handle_signature (domain.py 140-167)
SolidityStateVariable_handle_signature(objtype, sig, path) ==
    Bind(param_var_re_fullmatch(sig), LAMBDA match :
        IF match = None THEN ReturnNone("could not parse", << >>)
        ELSE IF TheVal(match).name = None THEN ReturnNone("missing name", << >>)
        ELSE ReturnFullName(
                SolObjFullName(TheVal(TheVal(match).name), path, None), << >>))

name_constructor == <<"c", "o", "n", "s", "t", "r", "u", "c", "t", "o", "r">>
name_fallback == <<"<", "f", "a", "l", "l", "b", "a", "c", "k", ">">>

\* the keywords of domain.py 270-279
BareKeywords ==
    {kw_public, kw_private, kw_external, kw_internal, kw_pure, kw_view,
     kw_payable, kw_anonymous}

\* The loop over modifier_re.finditer(modifiers_str) (domain.py 266-298):
\* "done" with the lines appended, or the early return / the exception that
\* ends it.
RECURSIVE ModifierLoop(_, _)
ModifierLoop(matches, lines) ==
    IF matches = << >> THEN [tag |-> "done", lines |-> lines]
    ELSE LET modname == matches[1].modname
             modparams_str == matches[1].modparams
         IN  IF modname \in BareKeywords
             THEN IF modparams_str # None
                  THEN ReturnNone("keyword can't have arguments", lines)
                  ELSE ModifierLoop(Tail(matches), Append(lines, modname))
             ELSE IF modname = kw_returns
             THEN IF modparams_str # None /\ _parse_params(TheVal(modparams_str)) = None
                  THEN Raise("TypeError", lines)  \* None[0]
                  ELSE ModifierLoop(Tail(matches), Append(lines, modname))
             ELSE ModifierLoop(Tail(matches), Append(lines, modname))

\* C6 mutant: the parameter types are kept for every function-like kind.
FunctionLikeParamTypes_kept(objtype, abi_types) == Some(abi_types)

\* domain.py 300-301
FunctionLikeParamTypes(objtype, abi_types) ==
    IF objtype \notin {"function", "event"} THEN None ELSE Some(abi_types)

\* C7 mutant: every missing name is resolved like a constructor's, and the
\* fallback function's parameter list is not looked at.
MissingName_lenient(objtype, paramlist_str) ==
    [name |-> Some(IF objtype = "function" THEN name_fallback ELSE name_constructor),
     warning |-> ""]

\* domain.py 236-253: the name given to a signature without one, or the
\* warning with which handle_signature returns None.
MissingName(objtype, paramlist_str) ==
    IF objtype = "constructor" THEN [name |-> Some(name_constructor), warning |-> ""]
    ELSE IF objtype = "function"
    THEN IF ~IsBlank(paramlist_str)
         THEN [name |-> None, warning |-> "fallback function must have no parameters"]
         ELSE [name |-> Some(name_fallback), warning |-> ""]
    ELSE [name |-> None, warning |-> "must have name"]

\* SolidityFunctionLike.handle_signature (domain.py 226-307)
SolidityFunctionLike_handle_signature(objtype, sig, path) ==
    Bind(function_re_fullmatch(sig), LAMBDA match :
        IF match = None THEN ReturnNone("could not parse", << >>)
        ELSE
        Bind(TheVal(match).paramlist, LAMBDA paramlist_str :
        Bind(TheVal(match).modifiers, LAMBDA modifiers_str :
        Bind(IF TheVal(match).name = None
             THEN MissingName(objtype, paramlist_str)
             ELSE [name |-> TheVal(match).name, warning |-> ""], LAMBDA resolved :
            IF resolved.name = None THEN ReturnNone(resolved.warning, << >>)
            ELSE
            Bind(_parse_params(paramlist_str), LAMBDA parsed :
                IF parsed = None
                THEN Raise("TypeError", << >>)  \* unpacking None (domain.py 258)
                ELSE IF objtype = "modifier" /\ ~IsBlank(modifiers_str)
                THEN ReturnNone("modifier can't have modifiers", << >>)
                ELSE
                Bind(ModifierLoop(modifier_re_finditer(modifiers_str), << >>),
                     LAMBDA loop :
                    IF loop.tag # "done" THEN loop
                    ELSE ReturnFullName(
                            SolObjFullName(
                                TheVal(resolved.name), path,
                                FunctionLikeParamTypes(objtype,
                                                       TheVal(parsed).abi_types)),
                            loop.lines)))))))

\* SolidityDomain.directives (domain.py 341-352): the directive class of
\* each object type.
handle_signature(objtype, sig, path) ==
    IF objtype \in TypeLikeKinds
    THEN SolidityTypeLike_handle_signature(objtype, sig, path)
    ELSE IF objtype = "statevar"
    THEN SolidityStateVariable_handle_signature(objtype, sig, path)
    ELSE SolidityFunctionLike_handle_signature(objtype, sig, path)

---------------------------------------------------------------------------
\* The registry: a Python dict from SolObjFullName to (docname, objtype),
\* modelled by the sequence of its items in iteration (insertion) order.

DictHas(d, k) == \E i \in 1..Len(d) : d[i].key = k
DictGet(d, k) == d[CHOOSE i \in 1..Len(d) : d[i].key = k].value
\* d[k] = v: an existing key keeps its place, a new key goes last
DictSet(d, k, v) ==
    IF DictHas(d, k)
    THEN [i \in 1..Len(d) |-> IF d[i].key = k THEN [key |-> k, value |-> v] ELSE d[i]]
    ELSE Append(d, [key |-> k, value |-> v])
\* del d[k]
DictDel(d, k) == SelectSeq(d, LAMBDA item : item.key # k)

\* `fullname not in self.state.document.ids` (domain.py 33): docutils keys
\* document.ids by id strings, and a SolObjFullName tuple is equal to no
\* string, so the test succeeds whatever the document holds.
NotInDocumentIds(fullname) == TRUE

\* C3 mutant: a duplicate is warned about and the earlier entry is kept.
add_target_and_index_first_wins(objs, fullname, docname, objtype) ==
    IF DictHas(objs, fullname)
    THEN [objects |-> objs, warning |-> Some(DictGet(objs, fullname)[1])]
    ELSE [objects |-> DictSet(objs, fullname, <<docname, objtype>>), warning |-> None]

\* SolidityObject.add_target_and_index (domain.py 32-47): the registry
\* afterwards and the `otherloc` of the duplicate warning, if one is reported.
add_target_and_index(objs, fullname, docname, objtype) ==
    IF NotInDocumentIds(fullname)
    THEN [objects |-> DictSet(objs, fullname, <<docname, objtype>>),
          warning |-> IF DictHas(objs, fullname)
                      THEN Some(DictGet(objs, fullname)[1])
                      ELSE None]
    ELSE [objects |-> objs, warning |-> None]

\* SolidityDomain.clear_doc (domain.py 371-375)
clear_doc(objs, docname) ==
    SelectSeq(objs, LAMBDA item : item.value[1] # docname)

\* C1 mutant: the entries of every document of otherdata are merged.
RECURSIVE merge_domaindata_unfiltered(_, _, _)
merge_domaindata_unfiltered(objs, docnames, other) ==
    IF other = << >> THEN objs
    ELSE merge_domaindata_unfiltered(
            DictSet(objs, other[1].key, other[1].value), docnames, Tail(other))

\* SolidityDomain.merge_domaindata (domain.py 377-382)
RECURSIVE merge_domaindata(_, _, _)
merge_domaindata(objs, docnames, other) ==
    IF other = << >> THEN objs
    ELSE merge_domaindata(
            IF other[1].value[1] \in docnames
            THEN DictSet(objs, other[1].key, other[1].value)
            ELSE objs,
            docnames, Tail(other))

\* make_refnode(builder, fromdocname, docname, fullname2id(fullname),
\* contnode, fullname.name): the reference's target document, anchor id and
\* title.
make_refnode(docname, targetid, title) ==
    [refdoc |-> docname, refid |-> targetid, title |-> title]

\* C2 mutant: the target is compared with the dotted path of the entry.
RECURSIVE resolve_xref_by_path(_, _)
resolve_xref_by_path(objs, target) ==
    IF objs = << >> THEN None
    ELSE IF fullname2namepath(objs[1].key) = target
         THEN Some(make_refnode(objs[1].value[1], fullname2id(objs[1].key),
                                objs[1].key.name))
         ELSE resolve_xref_by_path(Tail(objs), target)

\* SolidityDomain.resolve_xref (domain.py 384-409): None, or Some of the
\* reference node.
RECURSIVE resolve_xref(_, _)
resolve_xref(objs, target) ==
    IF objs = << >> THEN None
    ELSE IF objs[1].key.name = target
         THEN Some(make_refnode(objs[1].value[1], fullname2id(objs[1].key),
                                objs[1].key.name))
         ELSE resolve_xref(Tail(objs), target)

---------------------------------------------------------------------------
\* The scope path (domain.py 68-80).  self.names holds what handle_signature
\* returned for the directive's signatures: a full name (Some) or None.

\* SolidityObject.before_content: the obj_path afterwards
before_content(names, path) ==
    IF names # << >>
    THEN LET last_name == names[Len(names)] IN
         IF IsSome(last_name)                      \* hasattr(last_name, "name")
         THEN Append(path, TheVal(last_name).name)
         ELSE path
    ELSE path

\* SolidityObject.after_content: the obj_path afterwards; obj_path.pop()
\* raises IndexError on an empty list, which is swallowed
after_content(path) ==
    IF path = << >> THEN path ELSE Take(path, Len(path) - 1)

---------------------------------------------------------------------------
\* The normalizer's specification: a raw type string, normalized once and
\* then once more.

MaxPieces == 3

TypePieces == { <<"a">>, <<" ">>, <<"\t">>, <<"[">>, <<"]">>, <<"(">>, <<")">>,
                <<"=">>, <<">">>, <<".">>,
                <<"m", "a", "p", "p", "i", "n", "g">> }

RECURSIVE Flatten(_)
Flatten(ss) == IF ss = << >> THEN << >> ELSE Head(ss) \o Flatten(Tail(ss))

\* "uint256 [ ] memory"
Uint256ArrayMemoryRaw ==
    <<"u", "i", "n", "t", "2", "5", "6", " ", "[", " ", "]", " ",
      "m", "e", "m", "o", "r", "y">>
\* "mapping(address=>uint256)" shortened to "mapping(a=>u)"
MappingRaw == <<"m", "a", "p", "p", "i", "n", "g", "(", "a", "=", ">", "u", ")">>

TypeStrings ==
    { Flatten(ps) : ps \in UNION { [1..n -> TypePieces] : n \in 0..MaxPieces } }
    \cup {Uint256ArrayMemoryRaw, MappingRaw}

NormIdle == type_str = << >> /\ normalized = None /\ renormalized = None
ParseIdle ==
    p_objtype = "contract" /\ p_sig = << >> /\ p_obj_path = << >> /\ p_result = None

NoHist ==
    [op |-> "init", pre |-> << >>, pre0 |-> None, docname |-> "", docnames |-> {},
     other |-> << >>, decl |-> None, warning |-> None, target |-> << >>,
     resolved |-> None]
RegIdle == objects = << >> /\ hist = NoHist
NoLast ==
    [event |-> "init", objtype |-> "", sig |-> << >>, result |-> None,
     path_before |-> << >>, objects_before |-> << >>]
DocIdle ==
    obj_path = << >> /\ open = << >> /\ last = NoLast /\ aborted = FALSE /\ ndecl = 0

InitNorm ==
    /\ type_str \in TypeStrings
    /\ normalized = None
    /\ renormalized = None
    /\ ParseIdle
    /\ RegIdle
    /\ DocIdle

Normalize ==
    /\ normalized = None
    /\ normalized' = Some(normalize_type(type_str))
    /\ UNCHANGED <<type_str, renormalized, parseVars, regVars, docVars>>

Renormalize ==
    /\ IsSome(normalized)
    /\ renormalized = None
    /\ renormalized' = Some(normalize_type(TheVal(normalized)))
    /\ UNCHANGED <<type_str, normalized, parseVars, regVars, docVars>>

NextNorm == Normalize \/ Renormalize

SpecNorm == InitNorm /\ [][NextNorm]_vars

---------------------------------------------------------------------------
\* C8 (as stated): normalize("uint256 [ ] memory") returns "uint256[] memory".
C8_Original ==
    (type_str = Uint256ArrayMemoryRaw /\ IsSome(normalized))
        => TheVal(normalized) =
             <<"u", "i", "n", "t", "2", "5", "6", "[", "]", " ",
               "m", "e", "m", "o", "r", "y">>

\* C8 (amended): normalize removes the whitespace around punctuation inside
\* a type expression, including the whitespace that follows a closing
\* bracket: normalize("uint256 [ ] memory") returns "uint256[]memory".
C8_NormalizeExample ==
    (type_str = Uint256ArrayMemoryRaw /\ IsSome(normalized))
        => TheVal(normalized) =
             <<"u", "i", "n", "t", "2", "5", "6", "[", "]",
               "m", "e", "m", "o", "r", "y">>

C8_Witness == type_str = Uint256ArrayMemoryRaw /\ IsSome(normalized)

\* C9: normalize is idempotent: normalizing an already normalized type
\* string returns it unchanged, for every type string over word characters,
\* whitespace, brackets, parentheses, "=", ">" and ".", including strings
\* that contain "mapping(" and "=>".
C9_Idempotent ==
    IsSome(renormalized) => TheVal(renormalized) = TheVal(normalized)

\* A string holding "mapping(" and "=>" whose normal form differs from it
\* has been normalized twice.
C9_Witness ==
    /\ type_str = MappingRaw
    /\ IsSome(renormalized)
    /\ TheVal(normalized) # type_str

---------------------------------------------------------------------------
\* The signature parser's specification: one directive's object type and
\* signature, parsed once.

MaxParams == 2

str_f == <<"f">>
str_S == <<"S">>
str_Foo == <<"F", "o", "o">>
str_uint == <<"u", "i", "n", "t">>

\* the texts between the commas of a parameter list
ParamSegments ==
    { << >>,                                         \* ""
      <<" ">>,                                       \* " "
      str_uint \o <<" ", "a">>,                      \* "uint a"
      str_uint \o <<"[", "]", " ">> \o kw_storage \o <<" ", "a">>,  \* "uint[] storage a"
      <<"a", "-", "b">> }                            \* "a-b"

ParamLists ==
    { Join(segs, <<",">>) :
        segs \in UNION { [1..n -> ParamSegments] : n \in 0..MaxParams } }

ModifierLists ==
    { << >>,
      <<" ">> \o kw_external \o <<" ">> \o kw_payable,       \* " external payable"
      <<" ">> \o kw_public \o <<"(", "a", ")">>,             \* " public(a)"
      <<" ">> \o kw_returns \o <<" ", "(">> \o str_uint \o <<" ", "a", ")">>,
                                                             \* " returns (uint a)"
      <<" ">> \o kw_returns \o <<"(", ",", ")">>,            \* " returns(,)"
      <<" ", "o", "n", "l", "y", "(", "a", ",", " ", "b", ")", " ">> \o kw_view }
                                                             \* " only(a, b) view"

\* "() external payable"
FallbackExampleSig == <<"(", ")", " ">> \o kw_external \o <<" ">> \o kw_payable
\* "(uint256 x) external"
FallbackParamsExampleSig ==
    <<"(">> \o str_uint \o <<"2", "5", "6", " ", "x", ")", " ">> \o kw_external

FunctionLikeSigs ==
    { n \o <<"(">> \o pl \o <<")">> \o m :
        n \in { << >>, str_f, <<" ">> }, pl \in ParamLists, m \in ModifierLists }
    \cup { str_f, str_f \o <<"(">>, FallbackParamsExampleSig }

TypeLikeSigs ==
    { str_Foo,
      str_Foo \o <<" ">> \o kw_is \o <<" ", "B", ",", "C", " ">>,   \* "Foo is B,C "
      str_Foo \o <<" ">> \o kw_is,                                  \* "Foo is"
      << >> }

StateVarSigs ==
    { str_uint \o <<" ">> \o kw_public,                             \* "uint public"
      str_uint \o <<" ">> \o kw_public \o <<" ", "x">>,             \* "uint public x"
      <<"a", "-", "b">> }

Directives ==
    (TypeLikeKinds \X TypeLikeSigs)
        \cup ({"statevar"} \X StateVarSigs)
        \cup (FunctionLikeKinds \X FunctionLikeSigs)

InitParse ==
    /\ \E d \in Directives : p_objtype = d[1] /\ p_sig = d[2]
    /\ p_obj_path = <<str_S>>
    /\ p_result = None
    /\ NormIdle
    /\ RegIdle
    /\ DocIdle

ParseSignature ==
    /\ p_result = None
    /\ p_result' = Some(handle_signature(p_objtype, p_sig, p_obj_path))
    /\ UNCHANGED <<p_objtype, p_sig, p_obj_path, normVars, regVars, docVars>>

NextParse == ParseSignature

SpecParse == InitParse /\ [][NextParse]_vars

---------------------------------------------------------------------------
\* The signature has no name before its parameter list: its first
\* non-blank character is the opening parenthesis, and function_re matches.
NoNameSig(sig) ==
    /\ SpaceRun(sig) < Len(sig)
    /\ sig[SpaceRun(sig) + 1] = "("
    /\ IsSome(function_re_fullmatch(sig))

\* The text between the first "(" and the first ")" of sig.
ParamListOf(sig) ==
    LET afterOpen == Drop(sig, IndexOf(sig, "(")) IN
    Take(afterOpen, IndexOf(afterOpen, ")") - 1)

\* Nothing but the missing name can stop the parse: every parameter
\* segment matches, no bare keyword carries arguments and every `returns`
\* argument list parses.
RestWellFormed(sig) ==
    LET m == TheVal(function_re_fullmatch(sig))
        mods == modifier_re_finditer(m.modifiers)
    IN  /\ _parse_params(m.paramlist) # None
        /\ \A i \in 1..Len(mods) :
              /\ mods[i].modname \in BareKeywords => mods[i].modparams = None
              /\ (mods[i].modname = kw_returns /\ mods[i].modparams # None)
                    => _parse_params(TheVal(mods[i].modparams)) # None

\* C7: for a function-like signature with no name before the parameter
\* list, a constructor is named "constructor"; a function with an empty or
\* whitespace-only parameter list is named "<fallback>" and keeps its
\* modifiers in order ("() external payable" gives [external, payable]); a
\* function with a non-empty parameter list fails with the fallback warning;
\* a modifier or an event fails with the missing-name warning; and no
\* failing case produces a full name.
C7_MissingNameRules ==
    (IsSome(p_result) /\ p_objtype \in FunctionLikeKinds /\ NoNameSig(p_sig)) =>
        LET r == TheVal(p_result)
            blank == IsBlank(ParamListOf(p_sig))
        IN  /\ p_objtype = "constructor" =>
                /\ r.tag = "fullname" => TheVal(r.fullname).name = name_constructor
                /\ RestWellFormed(p_sig) => r.tag = "fullname"
                /\ r.warning \notin {"must have name",
                                     "fallback function must have no parameters"}
            /\ (p_objtype = "function" /\ blank) =>
                /\ r.tag = "fullname" =>
                      /\ TheVal(r.fullname).name = name_fallback
                      /\ TheVal(r.fullname).param_types = Some(<< >>)
                /\ RestWellFormed(p_sig) => r.tag = "fullname"
                /\ r.warning \notin {"must have name",
                                     "fallback function must have no parameters"}
                /\ p_sig = FallbackExampleSig =>
                      r.tag = "fullname" /\ r.lines = <<kw_external, kw_payable>>
            /\ (p_objtype = "function" /\ ~blank) =>
                /\ r.tag = "none"
                /\ r.warning = "fallback function must have no parameters"
            /\ p_objtype \in {"modifier", "event"} =>
                /\ r.tag = "none"
                /\ r.warning = "must have name"
            /\ r.tag # "fullname" => r.fullname = None

\* The fallback example has been parsed as a function.
C7_Witness ==
    /\ IsSome(p_result)
    /\ p_objtype = "function"
    /\ p_sig = FallbackExampleSig
    /\ TheVal(p_result).tag = "fullname"

---------------------------------------------------------------------------
\* The registry's specification: declarations of two documents are
\* registered, documents are cleared, partial registries are merged and
\* targets are resolved, in any order.

MaxPartial == 2

Docs == {"d1", "d2"}

\* "f()"
str_f_call == <<"f", "(", ")">>

\* The directives whose declarations are registered: a contract Foo at the
\* document root and, in its body, a function f() and a modifier f().
RegDirectives ==
    { <<"contract", str_Foo, << >> >>,
      <<"function", str_f_call, <<str_Foo>> >>,
      <<"modifier", str_f_call, <<str_Foo>> >> }

\* What ObjectDescription.run hands to add_target_and_index: the full name
\* handle_signature returned, with the directive's object type.
Decls ==
    { [fullname |-> TheVal(handle_signature(d[1], d[2], d[3]).fullname),
       objtype |-> d[1]] :
        d \in { e \in RegDirectives : handle_signature(e[1], e[2], e[3]).tag = "fullname" } }

DeclItems ==
    { [key |-> d.fullname, value |-> <<doc, d.objtype>>] : d \in Decls, doc \in Docs }

\* The registries another process can hand to merge_domaindata: dicts of at
\* most MaxPartial registered declarations.
PartialRegs ==
    { r \in UNION { [1..n -> DeclItems] : n \in 0..MaxPartial } :
        \A i, j \in 1..Len(r) : i # j => r[i].key # r[j].key }

ResolveTargets == { str_f, str_Foo, <<"F", "o", "o", ".", "f">>, <<"g">> }

InitReg ==
    /\ objects = << >>
    /\ hist = NoHist
    /\ NormIdle
    /\ ParseIdle
    /\ DocIdle

\* A directive of document docname registers its declaration.
Insert(decl, docname) ==
    LET r == add_target_and_index(objects, decl.fullname, docname, decl.objtype) IN
    /\ objects' = r.objects
    /\ hist' = [NoHist EXCEPT !.op = "insert", !.pre = objects, !.docname = docname,
                              !.decl = Some(decl), !.warning = r.warning]
    /\ UNCHANGED <<normVars, parseVars, docVars>>

ClearDoc(docname) ==
    /\ objects' = clear_doc(objects, docname)
    /\ hist' = [NoHist EXCEPT !.op = "clear", !.pre = objects, !.docname = docname]
    /\ UNCHANGED <<normVars, parseVars, docVars>>

\* pre0 keeps the registry from before the clear_doc(D) that this
\* merge(other, {D}) directly follows.
MergeDomaindata(docnames, other) ==
    /\ objects' = merge_domaindata(objects, docnames, other)
    /\ hist' = [NoHist EXCEPT !.op = "merge", !.pre = objects, !.docnames = docnames,
                              !.other = other,
                              !.pre0 = IF hist.op = "clear" /\ docnames = {hist.docname}
                                       THEN Some(hist.pre) ELSE None]
    /\ UNCHANGED <<normVars, parseVars, docVars>>

ResolveXref(target) ==
    /\ hist' = [NoHist EXCEPT !.op = "resolve", !.pre = objects, !.target = target,
                              !.resolved = Some(resolve_xref(objects, target))]
    /\ UNCHANGED <<objects, normVars, parseVars, docVars>>

NextReg ==
    \/ \E decl \in Decls, docname \in Docs : Insert(decl, docname)
    \/ \E docname \in Docs : ClearDoc(docname)
    \/ \E docnames \in (SUBSET Docs) \ {{}}, other \in PartialRegs :
            MergeDomaindata(docnames, other)
    \/ \E target \in ResolveTargets : ResolveXref(target)

SpecReg == InitReg /\ [][NextReg]_vars

---------------------------------------------------------------------------
\* The entries of a registry as a set of (key, origin document, kind).
Entries(d) == { <<d[i].key, d[i].value[1], d[i].value[2]>> : i \in 1..Len(d) }
EntriesOf(d, docname) == { e \in Entries(d) : e[2] = docname }
EntriesNotOf(d, docname) == { e \in Entries(d) : e[2] # docname }

\* merge(other, {D}) has just followed clear_document(D).
ClearedThenMerged == hist.op = "merge" /\ IsSome(hist.pre0)
RebuiltDoc == CHOOSE docname \in hist.docnames : TRUE

C2_ResolveFirstByName ==
    hist.op = "resolve" =>
        LET matching == { i \in 1..Len(objects) : objects[i].key.name = hist.target }
            result == TheVal(hist.resolved)
        IN  /\ result = None <=> matching = {}
            /\ matching # {} =>
                  LET first == CHOOSE i \in matching : \A j \in matching : i <= j
                      ref == TheVal(result)
                  IN  /\ ref.refdoc = objects[first].value[1]
                      /\ ref.refid = fullname2id(objects[first].key)
                      /\ ref.title = hist.target

\* Two entries of different scope-independent identity share the resolved
\* name, and the reference is to the first of them.
C2_Witness ==
    /\ hist.op = "resolve"
    /\ hist.target = str_f
    /\ Cardinality({ i \in 1..Len(objects) : objects[i].key.name = str_f }) = 2
    /\ IsSome(TheVal(hist.resolved))

\* C3: insert never fails; the duplicate warning, naming the earlier
\* origin, is reported exactly when the full name is already a key; either
\* way the registry afterwards maps the full name to the new (origin, kind)
\* and every other entry is unchanged.
C3_InsertLastWriteWins ==
    hist.op = "insert" =>
        LET decl == TheVal(hist.decl)
            k == decl.fullname
            dup == { e \in Entries(hist.pre) : e[1] = k }
        IN  /\ IsSome(hist.warning) <=> dup # {}
            /\ \A e \in dup : hist.warning = Some(e[2])
            /\ { e \in Entries(objects) : e[1] = k } = { <<k, hist.docname, decl.objtype>> }
            /\ { e \in Entries(objects) : e[1] # k } = { e \in Entries(hist.pre) : e[1] # k }
            /\ Len(objects) = Cardinality({ e[1] : e \in Entries(objects) })

\* A declaration has been registered again from another document, with a
\* warning.
C3_Witness ==
    /\ hist.op = "insert"
    /\ IsSome(hist.warning)
    /\ TheVal(hist.warning) # hist.docname

\* C5 (as stated): the registry left by two merges does not depend on their
\* order: after merge(P1, D1), a further merge(P2, D2) leaves the same
\* mapping as merge(P2, D2) followed by merge(P1, D1) from the same start.
C5_MergeOrderIndependent ==
    hist.op = "merge" =>
        \A D2 \in (SUBSET Docs) \ {{}}, P2 \in PartialRegs :
            Entries(merge_domaindata(objects, D2, P2))
                = Entries(merge_domaindata(
                            merge_domaindata(hist.pre, D2, P2), hist.docnames, hist.other))

\* The full names the directives of the parser's specification parse to,
\* each with its object type.
ParsedDirectives ==
    { [fullname |-> TheVal(handle_signature(d[1], d[2], <<str_S>>).fullname),
       objtype |-> d[1]] :
        d \in { e \in Directives : handle_signature(e[1], e[2], <<str_S>>).tag = "fullname" } }

\* C6: param_types is present in a parsed full name, and in a registry
\* entry's key, exactly when the kind is function or event.  An empty
\* parameter list of a function is present-but-empty: the function f() has
\* the id "Foo.f()", the modifier f the id "Foo.f", and they are two keys.
C6_ParamTypesOnlyForFunctionAndEvent ==
    /\ \A d \in ParsedDirectives \cup Decls :
            IsSome(d.fullname.param_types) <=> d.objtype \in {"function", "event"}
    /\ \A e \in Entries(objects) :
            /\ IsSome(e[1].param_types) <=> e[3] \in {"function", "event"}
            /\ (e[1].name = str_f /\ e[3] = "function") =>
                  /\ e[1].param_types = Some(<< >>)
                  /\ fullname2id(e[1]) = <<"F", "o", "o", ".", "f", "(", ")">>
            /\ (e[1].name = str_f /\ e[3] = "modifier") =>
                  /\ e[1].param_types = None
                  /\ fullname2id(e[1]) = <<"F", "o", "o", ".", "f">>

\* The registry holds the function f() and the modifier f of the same
\* scope, after a merge.
C6_Witness ==
    /\ hist.op = "merge"
    /\ \E e \in Entries(objects) : e[1].name = str_f /\ e[3] = "function"
    /\ \E e \in Entries(objects) : e[1].name = str_f /\ e[3] = "modifier"

---------------------------------------------------------------------------
\* One document's specification: its directives are processed in document
\* order, each one as: parse the signature, register the declaration,
\* before_content, the nested directives, after_content.

MaxDecls == 3
MaxDepth == 2

DocName == "d1"

\* "f(uint a,,uint b)"
EmptySegmentSig ==
    str_f \o <<"(">> \o str_uint \o <<" ", "a", ",", ",">> \o str_uint \o <<" ", "b", ")">>
\* "f() returns(,)"
EmptyReturnsSegmentSig == str_f_call \o <<" ">> \o kw_returns \o <<"(", ",", ")">>

DocDirectives ==
    { <<"contract", str_Foo>>,
      <<"contract", str_Foo \o <<" ">> \o kw_is>>,                   \* "Foo is"
      <<"function", str_f_call>>,
      <<"function", EmptySegmentSig>>,
      <<"function", EmptyReturnsSegmentSig>>,
      <<"statevar", str_uint \o <<" ">> \o kw_public>>,              \* "uint public"
      <<"statevar", str_uint \o <<" ">> \o kw_public \o <<" ", "x">> >> }

InitDoc ==
    /\ obj_path = << >>
    /\ open = << >>
    /\ last = NoLast
    /\ aborted = FALSE
    /\ ndecl = 0
    /\ objects = << >>
    /\ hist = NoHist
    /\ NormIdle
    /\ ParseIdle

\* The first half of ObjectDescription.run for one directive with one
\* signature: handle_signature; then, unless it raised, the declaration is
\* registered when a full name was returned, and before_content runs.  An
\* exception leaves the directive and ends the processing of the document.
BeginDirective(objtype, sig) ==
    LET r == handle_signature(objtype, sig, obj_path)
        names == <<r.fullname>>
        step == [event |-> "enter", objtype |-> objtype, sig |-> sig,
                 result |-> Some(r), path_before |-> obj_path,
                 objects_before |-> objects]
    IN  /\ ~aborted
        /\ ndecl < MaxDecls
        /\ Len(open) < MaxDepth
        /\ ndecl' = ndecl + 1
        /\ last' = step
        /\ IF r.tag = "raise"
           THEN /\ aborted' = TRUE
                /\ UNCHANGED <<obj_path, open, objects>>
           ELSE /\ objects' =
                     IF r.tag = "fullname"
                     THEN add_target_and_index(objects, TheVal(r.fullname),
                                               DocName, objtype).objects
                     ELSE objects
                /\ obj_path' = before_content(names, obj_path)
                /\ open' = Append(open, [path_before |-> obj_path])
                /\ UNCHANGED aborted
        /\ UNCHANGED <<hist, normVars, parseVars>>

\* The second half of ObjectDescription.run, after the directive's content:
\* after_content.
EndDirective ==
    /\ ~aborted
    /\ open # << >>
    /\ obj_path' = after_content(obj_path)
    /\ open' = Take(open, Len(open) - 1)
    /\ last' = [NoLast EXCEPT !.event = "leave",
                              !.path_before = open[Len(open)].path_before]
    /\ UNCHANGED <<objects, hist, aborted, ndecl, normVars, parseVars>>

NextDoc ==
    \/ \E d \in DocDirectives : BeginDirective(d[1], d[2])
    \/ EndDirective

SpecDoc == InitDoc /\ [][NextDoc]_vars

---------------------------------------------------------------------------
\* A named function-like signature that function_re matches and whose
\* parameter list, or whose `returns` argument list, has a comma-separated
\* segment that does not match the parameter pattern.
HasMalformedSegment(objtype, sig) ==
    /\ objtype \in FunctionLikeKinds
    /\ IsSome(function_re_fullmatch(sig))
    /\ LET m == TheVal(function_re_fullmatch(sig))
           mods == modifier_re_finditer(m.modifiers)
           bad(list) ==
               /\ ~IsBlank(list)
               /\ \E i \in 1..Len(Split(list, ",")) :
                      param_var_re_fullmatch(Split(list, ",")[i]) = None
       IN  /\ IsSome(m.name)
           /\ \/ bad(m.paramlist)
              \/ \E i \in 1..Len(mods) :
                    /\ mods[i].modname = kw_returns
                    /\ IsSome(mods[i].modparams)
                    /\ bad(TheVal(mods[i].modparams))

\* C4 (as stated): a function-like declaration with a malformed segment in
\* its parameter list or `returns` list ends with a returned failure, never
\* an abort: the declaration is not registered, the registry and the scope
\* path are unchanged, and the following declarations are still processed.
C4_MalformedParamsIsReturnedFailure ==
    (last.event = "enter" /\ HasMalformedSegment(last.objtype, last.sig)) =>
        /\ TheVal(last.result).tag = "none"
        /\ ~aborted
        /\ objects = last.objects_before
        /\ obj_path = last.path_before

\* C10 (as stated): the scope path after a declaration's leave equals the
\* scope path before its enter, whether or not its signature (or an earlier
\* sibling's) parsed; so the path is empty again at the document root.
C10_LeaveRestoresScopePath ==
    /\ last.event = "leave" => obj_path = last.path_before
    /\ open = << >> => obj_path = << >>

===========================================================================
